---------------------------- MODULE Spec2Model ----------------------------
(***************************************************************************)
(* Model of languatage's scan-and-aggregate engine (src/src/lib.rs):       *)
(* get_stat_with_config -> get_size -> get_dir_entries.                    *)
(*                                                                         *)
(* Strings are sequences of one-character strings, so that the substring,  *)
(* suffix and split operations of the code are computed character by       *)
(* character.  The platform is Unix: MAIN_SEPARATOR is "/".                *)
(*                                                                         *)
(* The filesystem is a tree of nodes                                       *)
(*   [name, kind, size, status, kids]                                      *)
(* kids is the listing in the order fs::read_dir yields it.  status says   *)
(* which filesystem call on the node fails:                                *)
(*   "ok"        every call succeeds                                       *)
(*   "entry_err" the read_dir iterator yields Err for this entry           *)
(*   "meta_err"  DirEntry::metadata() returns Err                          *)
(*   "read_err"  fs::read_dir on this directory returns Err (missing, not  *)
(*               a directory, permission denied)                            *)
(* f64 percentages are kept as exact fractions [num, den].  Paths are      *)
(* valid UTF-8, so Path::to_str (lib.rs:109) is always Some.               *)
(* src/src/stat.rs is not a module of the crate (lib.rs declares only      *)
(* config) and is not modelled.                                            *)
(***************************************************************************)
EXTENDS Integers, Sequences, FiniteSets, TLC

VARIABLES
    path,     \* the root path string handed to get_stat_with_config
    fs,       \* the directory node the root path resolves to
    config,   \* the Config: [language: Seq(rule), common: [ignore: Seq(str)]]
    idx,      \* get_size: index of the next rule of config.language
    sizes,    \* get_size: the (lang, size) pairs collected so far
    scanned,  \* get_size: per rule visited, what get_dir_entries returned
    result,   \* what get_stat_with_config returned: [ok, stats]
    pc        \* "get_size" | "aggregate" | "done"

vars == <<path, fs, config, idx, sizes, scanned, result, pc>>

----------------------------------------------------------------------------
(* Bounds *)

MaxSize == 2      \* file sizes range over 0..MaxSize
MaxRules == 2     \* config.language has at most MaxRules rules

----------------------------------------------------------------------------
(* Strings *)

MAIN_SEPARATOR == "/"

StartsWith(s, pre) == Len(pre) <= Len(s) /\ SubSeq(s, 1, Len(pre)) = pre

EndsWith(s, suf) ==
    Len(suf) <= Len(s) /\ SubSeq(s, Len(s) - Len(suf) + 1, Len(s)) = suf

Contains(s, sub) ==
    \E i \in 1..(Len(s) - Len(sub) + 1) : SubSeq(s, i, i + Len(sub) - 1) = sub

\* path.split(&['/', '\\'][..]).last(): what follows the last '/' or '\'
LastSegment(s) ==
    LET cut == {i \in 1..Len(s) : s[i] \in {"/", "\\"}}
        k == IF cut = {} THEN 0 ELSE CHOOSE i \in cut : \A j \in cut : j <= i
    IN  SubSeq(s, k + 1, Len(s))

\* Path::join as DirEntry::path() uses it (the name is never absolute)
PathJoin(base, name) ==
    IF base = <<>> \/ base[Len(base)] = MAIN_SEPARATOR
    THEN base \o name
    ELSE base \o <<MAIN_SEPARATOR>> \o name

----------------------------------------------------------------------------
(* Option and filesystem values *)

None == [some |-> FALSE, val |-> <<>>]
Some(v) == [some |-> TRUE, val |-> v]

File(n, sz, st) == [name |-> n, kind |-> "file", size |-> sz, status |-> st, kids |-> <<>>]
Dir(n, st, ks) == [name |-> n, kind |-> "dir", size |-> 0, status |-> st, kids |-> ks]

\* DirEntry::metadata()
metadata(entry) ==
    IF entry.node.status = "ok"
    THEN Some([is_dir |-> entry.node.kind = "dir", len |-> entry.node.size])
    ELSE None

\* fs::read_dir(path)
read_dir(node) ==
    IF node.kind = "dir" /\ node.status = "ok" THEN Some(node.kids) ELSE None

----------------------------------------------------------------------------
(* get_dir_entries *)

is_dot_dir(p) == p # <<".">> /\ StartsWith(LastSegment(p), <<".">>)

\* the pattern matched as a raw substring
is_ignored_substr(ignores, entry_path) ==
    \E k \in 1..Len(ignores) : Contains(entry_path, ignores[k])

\* the pattern bounded by a separator on its right only
is_ignored_mut(ignores, entry_path) ==
    \E k \in 1..Len(ignores) :
        Contains(entry_path, ignores[k] \o <<MAIN_SEPARATOR>>)

is_ignored(ignores, entry_path) ==
    \E k \in 1..Len(ignores) :
        Contains(entry_path, <<MAIN_SEPARATOR>> \o ignores[k] \o <<MAIN_SEPARATOR>>)

is_correct_ext(exts, entry_path) ==
    \E k \in 1..Len(exts) : EndsWith(entry_path, <<".">> \o exts[k])

RECURSIVE get_dir_entries(_, _, _, _)
RECURSIVE collect_entries(_, _, _, _)
RECURSIVE collect_entries_mut(_, _, _, _)

\* the filter_map closure of get_dir_entries, for one entry of the listing
visit_entry(p, e, ignores, exts) ==
    LET entry == [path |-> PathJoin(p, e.name), node |-> e]
    IN  IF e.status = "entry_err" THEN None
        ELSE IF is_ignored(ignores, entry.path) THEN None
        ELSE IF ~metadata(entry).some THEN None
        ELSE IF metadata(entry).val.is_dir
             THEN get_dir_entries(entry.path, e, ignores, exts)
        ELSE IF is_correct_ext(exts, entry.path) THEN Some(<<entry>>)
        ELSE None

\* as collect_entries, but an entry that fails ends the listing
collect_entries_mut(p, listing, ignores, exts) ==
    IF listing = <<>> THEN <<>>
    ELSE IF Head(listing).status # "ok" THEN <<>>
    ELSE LET r == visit_entry(p, Head(listing), ignores, exts)
         IN  (IF r.some THEN r.val ELSE <<>>)
             \o collect_entries_mut(p, Tail(listing), ignores, exts)

\* read_dir.into_iter().filter_map(closure).flatten().collect()
collect_entries(p, listing, ignores, exts) ==
    IF listing = <<>> THEN <<>>
    ELSE LET r == visit_entry(p, Head(listing), ignores, exts)
         IN  (IF r.some THEN r.val ELSE <<>>)
             \o collect_entries(p, Tail(listing), ignores, exts)

get_dir_entries(p, node, ignores, exts) ==
    IF is_dot_dir(p) THEN None
    ELSE IF ~read_dir(node).some THEN None
    ELSE Some(collect_entries(p, read_dir(node).val, ignores, exts))

----------------------------------------------------------------------------
(* get_size *)

RECURSIVE SumLen(_)
\* entries.iter().filter_map(|v| Some(v.metadata().ok()?.len())).sum()
SumLen(entries) ==
    IF entries = <<>> THEN 0
    ELSE (IF metadata(Head(entries)).some THEN metadata(Head(entries)).val.len ELSE 0)
         + SumLen(Tail(entries))

RECURSIVE all_rule_ignores(_, _)
all_rule_ignores(cfg, n) ==
    IF n = 0 THEN <<>> ELSE all_rule_ignores(cfg, n - 1) \o cfg.language[n].ignore

\* the ignore lists of all rules chained, instead of the rule's own
effective_ignores_mut(cfg, language) ==
    cfg.common.ignore \o all_rule_ignores(cfg, Len(cfg.language))

\* common_ignores.iter().chain(language.ignore.iter())
effective_ignores(cfg, language) == cfg.common.ignore \o language.ignore

\* get_dir_entries(&path, &ignores, &language.ext) for one rule
rule_entries(p, node, cfg, language) ==
    get_dir_entries(p, node, effective_ignores(cfg, language), language.ext)

\* the filter_map closure of get_size: None when get_dir_entries is None
size_of_rule(p, node, cfg, language) ==
    LET entries == rule_entries(p, node, cfg, language)
    IN  IF entries.some
        THEN Some([lang |-> language.lang, size |-> SumLen(entries.val)])
        ELSE None

RECURSIVE collect_sizes(_, _, _, _)
collect_sizes(p, node, cfg, n) ==
    IF n = 0 THEN <<>>
    ELSE LET r == size_of_rule(p, node, cfg, cfg.language[n])
         IN  collect_sizes(p, node, cfg, n - 1) \o (IF r.some THEN <<r.val>> ELSE <<>>)

\* get_size: always Ok, with the pairs of the rules whose scan was not None
get_size(p, node, cfg) == collect_sizes(p, node, cfg, Len(cfg.language))

----------------------------------------------------------------------------
(* get_stat_with_config *)

RECURSIVE SelectSeqNonZero(_)
\* .filter(|(_, s)| *s != 0)
SelectSeqNonZero(s) ==
    IF s = <<>> THEN <<>>
    ELSE (IF Head(s).size # 0 THEN <<Head(s)>> ELSE <<>>) \o SelectSeqNonZero(Tail(s))

\* no filter: zero totals kept
keep_all(s) == s

filter_nonzero(s) == SelectSeqNonZero(s)

\* x put into a sequence sorted by size, largest first, in front of its equals:
\* an unstable sort
insert_before_equals(sorted, x) ==
    LET k == Cardinality({i \in 1..Len(sorted) : sorted[i].size > x.size})
    IN  SubSeq(sorted, 1, k) \o <<x>> \o SubSeq(sorted, k + 1, Len(sorted))

\* x put into a sequence sorted by size, largest first, behind its equals
sort_insert(sorted, x) ==
    LET k == Cardinality({i \in 1..Len(sorted) : sorted[i].size >= x.size})
    IN  SubSeq(sorted, 1, k) \o <<x>> \o SubSeq(sorted, k + 1, Len(sorted))

RECURSIVE sort_by_size_desc(_)
\* sizes.sort_by(|a, b| b.1.cmp(&a.1)): slice::sort_by is a stable sort
sort_by_size_desc(s) ==
    IF s = <<>> THEN <<>>
    ELSE sort_insert(sort_by_size_desc(SubSeq(s, 1, Len(s) - 1)), s[Len(s)])

RECURSIVE SumSize(_)
SumSize(s) == IF s = <<>> THEN 0 ELSE Head(s).size + SumSize(Tail(s))

\* the largest total instead of the sum
total_size_mut(s) == IF s = <<>> THEN 0 ELSE s[1].size

\* sizes.iter().map(|v| v.1).sum()
total_size(s) == SumSize(s)

\* v.1 as f64 / total_size as f64 * 100.0, as an exact fraction
percentage(size, total) == [num |-> size * 100, den |-> total]

LanguageStat(v, total) ==
    [lang |-> v.lang, size |-> v.size, percentage |-> percentage(v.size, total)]

to_stats(s) == [i \in 1..Len(s) |-> LanguageStat(s[i], total_size(s))]

\* get_stat_with_config as a function of its inputs
get_stat_with_config(p, node, cfg) ==
    [ok |-> TRUE,
     stats |-> to_stats(sort_by_size_desc(filter_nonzero(get_size(p, node, cfg))))]

----------------------------------------------------------------------------
(* Inputs *)

s_dot == <<".">>
s_r == <<"r">>
s_t == <<"t">>
s_x_t == <<"x", "/", "t">>
s_dot_t == <<".", "/", "t">>
s_t_slash == <<"t", "/">>
s_x_t_slash == <<"x", "/", "t", "/">>
s_h == <<".", "h">>
s_h_slash == <<".", "h", "/">>
s_dotdot == <<".", ".">>
s_d == <<"d">>
s_ts == <<"t", "s">>
s_recycle == <<"$", "R", "E", "C", "Y", "C", "L", "E", ".", "B", "I", "N">>
s_a_r == <<"a", ".", "r">>
s_b_p == <<"b", ".", "p">>
s_c_r == <<"c", ".", "r">>
e_r == <<"r">>
e_p == <<"p">>

SystemDirNames == {s_recycle}

RuleRust == [lang |-> "rust", ext |-> <<e_r>>, ignore |-> <<>>]
RulePy == [lang |-> "python", ext |-> <<e_p, e_r>>, ignore |-> <<s_t>>]
RuleC == [lang |-> "c", ext |-> <<e_p>>, ignore |-> <<>>]
Rules == <<RuleRust, RulePy, RuleC>>

IsInjective(s) == \A i, j \in 1..Len(s) : i # j => s[i] # s[j]

Configs ==
    {[language |-> [i \in 1..Len(s) |-> Rules[s[i]]], common |-> [ignore |-> c]] :
        s \in {s \in UNION {[1..n -> 1..3] : n \in 0..MaxRules} : IsInjective(s)},
        c \in {<<>>, <<s_t>>}}

RootPaths ==
    {s_dot, s_r, s_t, s_x_t, s_dot_t, s_t_slash, s_x_t_slash, s_h, s_h_slash, s_dotdot}

Reverse(s) == [i \in 1..Len(s) |-> s[Len(s) + 1 - i]]

Order(rev, s) == IF rev THEN Reverse(s) ELSE s

\* a.r, and a directory holding b.p and a directory holding c.r
Trees ==
    {<<>>} \cup
    {Order(rev,
        <<File(s_a_r, s1, "ok"),
          Dir(n1, st1, Order(rev,
              <<File(s_b_p, 2, st2),
                Dir(n2, "ok", <<File(s_c_r, 1, "ok")>>)>>))>>) :
        rev \in BOOLEAN,
        s1 \in 0..MaxSize,
        n1 \in {s_d, s_t, s_ts, s_h, s_recycle},
        st1 \in {"ok", "read_err", "meta_err"},
        st2 \in {"ok", "entry_err", "meta_err"},
        n2 \in {s_d, s_t}}

Roots ==
    {Dir(<<>>, "ok", t) : t \in Trees}
    \cup {Dir(<<>>, "read_err", <<>>), File(<<>>, 1, "ok")}

----------------------------------------------------------------------------
(* The state machine *)

Init ==
    /\ path \in RootPaths
    /\ fs \in Roots
    /\ config \in Configs
    /\ idx = 1
    /\ sizes = <<>>
    /\ scanned = <<>>
    /\ result = [ok |-> TRUE, stats |-> <<>>]
    /\ pc = "get_size"

\* one iteration of the filter_map closure of get_size
ScanRule ==
    /\ pc = "get_size"
    /\ idx <= Len(config.language)
    /\ LET language == config.language[idx]
           r == size_of_rule(path, fs, config, language)
       IN  /\ scanned' = Append(scanned, rule_entries(path, fs, config, language))
           /\ sizes' = IF r.some THEN Append(sizes, r.val) ELSE sizes
    /\ idx' = idx + 1
    /\ UNCHANGED <<path, fs, config, result, pc>>

\* get_size returns Ok(result): it has no failing path
GetSizeReturn ==
    /\ pc = "get_size"
    /\ idx > Len(config.language)
    /\ pc' = "aggregate"
    /\ UNCHANGED <<path, fs, config, idx, sizes, scanned, result>>

\* get_stat_with_config after get_size: filter, sort, percentages, Ok(result)
Aggregate ==
    /\ pc = "aggregate"
    /\ result' = [ok |-> TRUE,
                  stats |-> to_stats(sort_by_size_desc(filter_nonzero(sizes)))]
    /\ pc' = "done"
    /\ UNCHANGED <<path, fs, config, idx, sizes, scanned>>

Next == ScanRule \/ GetSizeReturn \/ Aggregate

Spec == Init /\ [][Next]_vars

----------------------------------------------------------------------------
(* The notions the properties are stated in: path segments, not substrings *)

Done == pc = "done"

Range(s) == {s[i] : i \in 1..Len(s)}

RECURSIVE Split(_, _)
\* the pieces of s between the occurrences of the character c
Split(s, c) ==
    LET cut == {i \in 1..Len(s) : s[i] = c}
    IN  IF cut = {} THEN <<s>>
        ELSE LET k == CHOOSE i \in cut : \A j \in cut : i <= j
             IN  <<SubSeq(s, 1, k - 1)>> \o Split(SubSeq(s, k + 1, Len(s)), c)

IsHiddenName(n) == Len(n) > 0 /\ n[1] = "."

\* the root's base name: its last non-empty component
RootBaseName ==
    LET comps == SelectSeq(Split(path, "/"), LAMBDA x : x # <<>>)
    IN  IF comps = <<>> THEN <<>> ELSE comps[Len(comps)]

RootReadable == fs.kind = "dir" /\ fs.status = "ok"

\* the root is readable and the scan does not take it for a hidden directory
RootTraversed ==
    /\ RootReadable
    /\ \/ path = <<".">>
       \/ ~IsHiddenName(Split(path, "/")[Len(Split(path, "/"))])

RECURSIVE FilesUnder(_, _, _)
\* every file of a listing, with the directories above it (below the root) and
\* whether it and all of them can be read
FilesUnder(listing, dirs, reachable) ==
    UNION {IF e.kind = "file"
           THEN {[dirs |-> dirs, name |-> e.name, size |-> e.size,
                  readable |-> reachable /\ e.status = "ok"]}
           ELSE FilesUnder(e.kids, Append(dirs, e.name), reachable /\ e.status = "ok") :
           e \in Range(listing)}

AllFiles == IF fs.kind = "dir" THEN FilesUnder(fs.kids, <<>>, TRUE) ELSE {}

FileKey(f) == [dirs |-> f.dirs, name |-> f.name]

EffectiveIgnoreSet(language) == Range(config.common.ignore) \cup Range(language.ignore)

HasRuleExt(f, language) ==
    \E x \in Range(language.ext) : EndsWith(f.name, <<".">> \o x)

UnderHidden(f) == \E d \in Range(f.dirs) : IsHiddenName(d)

UnderIgnored(f, language) == Range(f.dirs) \cap EffectiveIgnoreSet(language) # {}

\* the files a rule is to count: readable, of the rule's extensions, under no
\* hidden directory and under no directory named by an ignore pattern
Surviving(language) ==
    {f \in AllFiles : /\ f.readable
                      /\ HasRuleExt(f, language)
                      /\ ~UnderHidden(f)
                      /\ ~UnderIgnored(f, language)}

RECURSIVE SumFileSizes(_)
SumFileSizes(S) ==
    IF S = {} THEN 0
    ELSE LET f == CHOOSE x \in S : TRUE IN f.size + SumFileSizes(S \ {f})

\* an entry get_dir_entries returned, as directories below the root and name
EntryFile(e) ==
    LET rel == SubSeq(e.path, Len(PathJoin(path, <<>>)) + 1, Len(e.path))
        segs == Split(rel, "/")
    IN  [dirs |-> SubSeq(segs, 1, Len(segs) - 1), name |-> segs[Len(segs)]]

EntryFiles(i) ==
    IF scanned[i].some THEN {EntryFile(e) : e \in Range(scanned[i].val)} ELSE {}

\* the entries that add to the rule's total: those of non-zero size
CountedFiles(i) ==
    IF scanned[i].some
    THEN {EntryFile(e) : e \in {x \in Range(scanned[i].val) : x.node.size > 0}}
    ELSE {}

RuleIndex(lang) == CHOOSE i \in 1..Len(config.language) : config.language[i].lang = lang

\* the total the result reports for rule i (0 when the rule is omitted)
RuleTotal(i) ==
    LET ks == {k \in 1..Len(result.stats) :
                  result.stats[k].lang = config.language[i].lang}
    IN  IF ks = {} THEN 0 ELSE result.stats[CHOOSE k \in ks : TRUE].size

\* the root path string itself holds the pattern behind a separator
RootHit(language) ==
    \E p \in EffectiveIgnoreSet(language) :
        \/ Contains(path, <<"/">> \o p \o <<"/">>)
        \/ EndsWith(path, <<"/">> \o p)

RuleIds == 1..Len(config.language)

RECURSIVE ReverseListing(_)
\* the same tree with every directory enumerated in the opposite order
ReverseListing(node) ==
    [node EXCEPT !.kids = [i \in 1..Len(node.kids) |->
                              ReverseListing(node.kids[Len(node.kids) + 1 - i])]]

----------------------------------------------------------------------------
(* C1 *)

\* C1: when the root path does not exist, is not a directory or cannot be
\* opened, get_stat_with_config returns Err, never Ok.
C1_RootFailureIsErr == (Done /\ ~RootReadable) => ~result.ok

----------------------------------------------------------------------------
(* C2 *)

\* C2: no file beneath a directory below the root whose base name starts with
\* '.' is among the entries get_dir_entries returns or in a rule's total; the
\* dot-prefix rule exempts only the root given exactly as ".", which is scanned
\* normally, so a root with a dot-prefixed base name given any other way
\* yields nothing.
C2_HiddenNeverCounted ==
    Done =>
        /\ \A i \in RuleIds : \A f \in EntryFiles(i) : ~UnderHidden(f)
        /\ (path # <<".">> /\ IsHiddenName(RootBaseName)) =>
               /\ \A i \in RuleIds : EntryFiles(i) = {}
               /\ result.stats = <<>>
        /\ (path = <<".">> /\ RootReadable) =>
               \A i \in RuleIds :
                   RuleTotal(i) = SumFileSizes(Surviving(config.language[i]))

----------------------------------------------------------------------------
(* C3 *)

ContainsProperly(d, p) == d # p /\ Contains(d, p)

\* a file the rule is to count that lies under a directory whose name has an
\* ignore pattern of the rule as a proper substring
UnderLookalike(f, language) ==
    /\ f \in Surviving(language)
    /\ \E d \in Range(f.dirs) : \E p \in EffectiveIgnoreSet(language) :
           ContainsProperly(d, p)

LookalikesCounted ==
    \A i \in RuleIds :
        (RootTraversed /\ ~RootHit(config.language[i])) =>
            \A f \in AllFiles :
                UnderLookalike(f, config.language[i]) =>
                    /\ FileKey(f) \in EntryFiles(i)
                    /\ RuleTotal(i) >= f.size

\* C3 as stated: for every pattern p of a rule's effective ignore set, no file
\* beneath any directory whose base name is exactly p (the root directory
\* included) adds to the rule's total, while files under a directory whose
\* name only contains p are still counted.
C3_IgnoredSegmentAnywhere ==
    Done =>
        /\ \A i \in RuleIds : \A f \in CountedFiles(i) :
               /\ ~UnderIgnored(f, config.language[i])
               /\ RootBaseName \notin EffectiveIgnoreSet(config.language[i])
        /\ LookalikesCounted

\* C3 amended: the same for every directory below the root; the root directory
\* itself is not covered.
C3_IgnoredSegmentBelowRoot ==
    Done =>
        /\ \A i \in RuleIds : \A f \in CountedFiles(i) :
               ~UnderIgnored(f, config.language[i])
        /\ LookalikesCounted

\* a rule ignoring "t" has scanned a tree with a readable file of its
\* extensions under t (not counted) and another under ts (counted)
C3_Witness ==
    /\ Done
    /\ \E i \in RuleIds :
           /\ s_t \in EffectiveIgnoreSet(config.language[i])
           /\ \E f \in AllFiles :
                  /\ f.readable /\ HasRuleExt(f, config.language[i])
                  /\ s_t \in Range(f.dirs) /\ f.size > 0
                  /\ FileKey(f) \notin EntryFiles(i)
           /\ \E f \in AllFiles :
                  /\ UnderLookalike(f, config.language[i])
                  /\ f.size > 0
                  /\ FileKey(f) \in EntryFiles(i)

----------------------------------------------------------------------------
(* C4 *)

\* C4: the result is ordered by size, largest first, entries of equal size in
\* the order their rules are declared, and is the same whatever order the
\* directories are enumerated in.
C4_SortedStable ==
    Done =>
        /\ \A k \in 1..(Len(result.stats) - 1) :
               \/ result.stats[k].size > result.stats[k + 1].size
               \/ /\ result.stats[k].size = result.stats[k + 1].size
                  /\ RuleIndex(result.stats[k].lang) < RuleIndex(result.stats[k + 1].lang)
        /\ result = get_stat_with_config(path, ReverseListing(fs), config)

\* a result in which two entries tie
C4_Witness ==
    /\ Done
    /\ \E k \in 1..(Len(result.stats) - 1) :
           result.stats[k].size = result.stats[k + 1].size

----------------------------------------------------------------------------
(* C5 *)

\* C5: no entry of the result has size 0; when every rule's total is zero,
\* and for an empty root directory, the call is Ok with the empty sequence,
\* and no percentage has a zero denominator.
C5_NoZeroTotals ==
    Done =>
        /\ result.ok
        /\ \A k \in 1..Len(result.stats) :
               /\ result.stats[k].size # 0
               /\ result.stats[k].percentage.den # 0
        /\ (\A j \in 1..Len(sizes) : sizes[j].size = 0) => result.stats = <<>>
        /\ (\A i \in RuleIds : Surviving(config.language[i]) = {}) => result.stats = <<>>
        /\ (RootReadable /\ fs.kids = <<>>) => result.stats = <<>>

\* a rule whose files sum to zero was dropped beside one that was kept
C5_Witness ==
    /\ Done
    /\ \E j \in 1..Len(sizes) : sizes[j].size = 0
    /\ Len(result.stats) >= 1

----------------------------------------------------------------------------
(* C6 *)

RECURSIVE SumNum(_)
SumNum(s) == IF s = <<>> THEN 0 ELSE Head(s).percentage.num + SumNum(Tail(s))

\* C6: in a non-empty result every percentage is size / grandTotal * 100 with
\* grandTotal the sum of the sizes of the entries of the result, so the
\* percentages sum to 100.
C6_PercentagesOfRetained ==
    (Done /\ result.stats # <<>>) =>
        LET grand == SumSize(result.stats)
        IN  /\ grand > 0
            /\ \A k \in 1..Len(result.stats) :
                   /\ result.stats[k].percentage.den = grand
                   /\ result.stats[k].percentage.num = result.stats[k].size * 100
            /\ SumNum(result.stats) = 100 * grand

\* a result of two entries of different size
C6_Witness ==
    /\ Done
    /\ Len(result.stats) >= 2
    /\ result.stats[1].size # result.stats[2].size

----------------------------------------------------------------------------
(* C7 *)

\* C7: a file of an extension two rules claim, excluded by neither, is among
\* the entries of both and adds its size to both totals; each rule's total is
\* the sum over the files surviving that rule's own filters.
C7_CountedUnderEachRule ==
    Done =>
        /\ \A i, j \in RuleIds :
               (i # j /\ RootTraversed
                      /\ ~RootHit(config.language[i]) /\ ~RootHit(config.language[j])) =>
                   \A f \in Surviving(config.language[i]) \cap Surviving(config.language[j]) :
                       /\ FileKey(f) \in EntryFiles(i) \cap EntryFiles(j)
                       /\ RuleTotal(i) >= f.size
                       /\ RuleTotal(j) >= f.size
        /\ \A i \in RuleIds :
               (RootTraversed /\ ~RootHit(config.language[i])) =>
                   RuleTotal(i) = SumFileSizes(Surviving(config.language[i]))

\* two rules share a surviving file, and one of them ignores a directory the
\* other counts a file under
C7_Witness ==
    /\ Done /\ RootTraversed
    /\ \E i, j \in RuleIds :
           /\ i # j
           /\ ~RootHit(config.language[i]) /\ ~RootHit(config.language[j])
           /\ \E f \in Surviving(config.language[i]) \cap Surviving(config.language[j]) :
                  f.size > 0
           /\ \E f \in Surviving(config.language[i]) \ Surviving(config.language[j]) :
                  /\ HasRuleExt(f, config.language[j])
                  /\ f.size > 0

----------------------------------------------------------------------------
(* C8 *)

\* C8: an entry below the root that cannot be read or stat'ed is skipped with
\* its subtree and nothing else: the call is Ok, and each rule's entries and
\* total are those of all the other surviving files.
C8_UnreadableEntrySkipped ==
    Done =>
        /\ result.ok
        /\ \A i \in RuleIds :
               (RootTraversed /\ ~RootHit(config.language[i])) =>
                   /\ scanned[i].some
                   /\ EntryFiles(i) = {FileKey(f) : f \in Surviving(config.language[i])}
                   /\ RuleTotal(i) = SumFileSizes(Surviving(config.language[i]))

\* the first entry of the root listing is unreadable and the file enumerated
\* after it is counted
C8_Witness ==
    /\ Done /\ RootTraversed
    /\ Len(fs.kids) = 2
    /\ fs.kids[1].status # "ok"
    /\ fs.kids[2].kind = "file" /\ fs.kids[2].size > 0
    /\ \E i \in RuleIds :
           /\ [dirs |-> <<>>, name |-> fs.kids[2].name] \in EntryFiles(i)
           /\ RuleTotal(i) >= fs.kids[2].size

----------------------------------------------------------------------------
(* C9 *)

\* C9: files beneath a directory with an OS-reserved name are skipped at any
\* depth, whatever the config.
C9_SystemDirsSkipped ==
    Done =>
        \A i \in RuleIds : \A f \in CountedFiles(i) :
            Range(f.dirs) \cap SystemDirNames = {}

----------------------------------------------------------------------------
(* C10 *)

\* the root path string is a pattern of the rule with no separator before it
BareRoot(language) ==
    \E p \in EffectiveIgnoreSet(language) : path = p \/ path = p \o <<"/">>

\* C10: when the root path string holds separator + p + separator or ends
\* with separator + p for a pattern p of the rule, the rule gets no entry and
\* is omitted from the result; with p given bare as the root path the
\* directory is scanned normally.
C10_RootPathMatched ==
    Done =>
        \A i \in RuleIds :
            /\ RootHit(config.language[i]) =>
                   /\ EntryFiles(i) = {}
                   /\ \A k \in 1..Len(result.stats) :
                          result.stats[k].lang # config.language[i].lang
            /\ (BareRoot(config.language[i]) /\ RootReadable) =>
                   /\ scanned[i].some
                   /\ EntryFiles(i) = {FileKey(f) : f \in Surviving(config.language[i])}
                   /\ RuleTotal(i) = SumFileSizes(Surviving(config.language[i]))

\* the root is given as x/t or x/t/, the rule ignores t, and the directory holds a
\* readable file of the rule's extensions that would otherwise be counted
C10_Witness ==
    /\ Done /\ RootTraversed
    /\ path \in {s_x_t, s_x_t_slash}
    /\ \E i \in RuleIds :
           /\ RootHit(config.language[i])
           /\ \E f \in Surviving(config.language[i]) : f.size > 0
           /\ scanned[i] = Some(<<>>)

=============================================================================
